---------------------------- MODULE Spec2Model ----------------------------
(***************************************************************************)
(* Background Removal API (src/main.py) behind gunicorn                    *)
(* (src/gunicorn.conf.py).                                                 *)
(*                                                                         *)
(* Requests arrive on the listening socket, wait in its backlog, and are   *)
(* taken one at a time by a worker, which routes them to a view function   *)
(* of the Flask application.  The view remove_background is modelled step  *)
(* by step (validate, decode, engine, encode, send); the other views and   *)
(* the error handlers are single steps.                                    *)
(*                                                                         *)
(* Every exception of remove_background is caught by its own except        *)
(* clause, so the errorhandler(500) of main.py:154-157 is never entered    *)
(* and has no action.  The arbiter's worker timeout and worker recycling   *)
(* (gunicorn.conf.py:12-15) and the automatic HEAD and OPTIONS methods are *)
(* outside the model.                                                      *)
(*                                                                         *)
(* Strings the code inspects character by character (the uploaded          *)
(* filename, the extensions) are sequences of one-character strings.       *)
(***************************************************************************)
EXTENDS Integers, Sequences, FiniteSets, TLC

VARIABLES
    ALLOWED_EXTENSIONS,  \* main.py:27, module-level set
    MAX_CONTENT_LENGTH,  \* main.py:21, app.config['MAX_CONTENT_LENGTH']
    reqs,                \* id -> the request as sent by the client
    backlog,             \* ids waiting on the listening socket, in order
    pc,                  \* id -> position of the request
    worker,              \* id -> worker process handling it (0: none yet)
    hist,                \* id -> steps of remove_background executed so far
    verdict,             \* id -> outcome of the validation of lines 78-93
    raised,              \* id -> text of the exception caught at line 129
    resp                 \* id -> responses sent to the client, in order

vars == <<ALLOWED_EXTENSIONS, MAX_CONTENT_LENGTH, reqs, backlog, pc, worker,
          hist, verdict, raised, resp>>

config == <<ALLOWED_EXTENSIONS, MAX_CONTENT_LENGTH>>

----------------------------------------------------------------------------
(* Bounds *)

\* Number of requests the clients send in one run.
MaxRequests == 2

Ids == 1..MaxRequests

----------------------------------------------------------------------------
(* Characters and strings *)

Upper == <<"A","B","C","D","E","F","G","H","I","J","K","L","M",
           "N","O","P","Q","R","S","T","U","V","W","X","Y","Z">>
Lower == <<"a","b","c","d","e","f","g","h","i","j","k","l","m",
           "n","o","p","q","r","s","t","u","v","w","x","y","z">>
Digits == {"0","1","2","3","4","5","6","7","8","9"}

Range(s) == {s[i] : i \in DOMAIN s}

Max(S) == CHOOSE x \in S : \A y \in S : y <= x

\* str.lower() on one character
lower_char(c) ==
    IF \E i \in DOMAIN Upper : Upper[i] = c
    THEN Lower[CHOOSE i \in DOMAIN Upper : Upper[i] = c]
    ELSE c

\* str.lower()
lower(s) == [i \in DOMAIN s |-> lower_char(s[i])]

\* str.rfind(c), 1-based; 0 when c does not occur
rfind(s, c) ==
    LET I == {i \in DOMAIN s : s[i] = c}
    IN  IF I = {} THEN 0 ELSE Max(I)

\* s.rsplit('.', 1)[1], for s containing a '.'
rsplit_last(s) == SubSeq(s, rfind(s, ".") + 1, Len(s))

----------------------------------------------------------------------------
(* Configuration *)

PNG  == <<"p","n","g">>
JPG  == <<"j","p","g">>
JPEG == <<"j","p","e","g">>
WEBP == <<"w","e","b","p">>

\* main.py:27
InitialAllowedExtensions == {PNG, JPG, JPEG, WEBP}

\* main.py:21
InitialMaxContentLength == 16 * 1024 * 1024

\* a second worker process
workers_two == 1 + 1

\* gunicorn.conf.py:9
workers == 1

\* gunicorn.conf.py:10
worker_class == "sync"

\* gunicorn.conf.py:11 (read by the asynchronous worker classes only)
worker_connections == 1000

\* Requests one worker process handles at the same time.
WorkerCapacity == IF worker_class = "sync" THEN 1 ELSE worker_connections

Workers == 1..workers


----------------------------------------------------------------------------
(* Requests *)

Small == 1024
AtLimit == InitialMaxContentLength
OverLimit == InitialMaxContentLength + 1

\* Filenames the clients upload.
Filenames ==
    { <<>>,                                          \* no file selected
      <<"a",".","p","n","g">>,
      <<"a",".","P","N","G">>,
      <<"a",".","J","p","g">>,
      <<"a",".","j","p","e","g">>,
      <<"a",".","w","e","b","p">>,
      <<"a",".","t","x","t">>,
      <<"p","n","g">>,                               \* no '.' at all
      <<"a",".","p","n","g",".">>,                   \* empty extension
      <<"a",".","p","n","g",".","t","x","t">>,
      <<"a",".","b",".","j","p","g">>,
      <<".","p","n","g">>,
      <<"a"," ","b",".","p","n","g">>,
      <<".",".","/","a",".","p","n","g">>,
      <<"a","!",".","p","n","g">> }

Req(m, p, n, has, f) ==
    [method |-> m, path |-> p, content_length |-> n, has_image |-> has,
     filename |-> f]

\* has_image: the multipart body holds a file part named image; filename: the
\* filename of that part.
Requests ==
    {Req(m, p, 0, FALSE, <<>>) :
        m \in {"GET", "POST"}, p \in {"/", "/health", "/nope"}}
    \cup {Req("GET", "/remove-background", 0, FALSE, <<>>),
          Req("GET", "/health", OverLimit, FALSE, <<>>),
          Req("POST", "/nope", OverLimit, FALSE, <<>>)}
    \cup {Req("POST", "/remove-background", Small, TRUE, f) : f \in Filenames}
    \cup {Req("POST", "/remove-background", n, FALSE, <<>>) :
            n \in {Small, OverLimit}}
    \cup {Req("POST", "/remove-background", n, TRUE, <<"a",".","p","n","g">>) :
            n \in {AtLimit, OverLimit}}

\* The URL map built by the @app.route decorators: path -> methods.
Routes ==
    [p \in {"/", "/health", "/remove-background"} |->
        IF p = "/remove-background" THEN {"POST"} ELSE {"GET"}]

\* no limit configured
TooLarge_unlimited(q) == FALSE

\* Werkzeug reads the body (request.files) only while the declared length
\* does not exceed MAX_CONTENT_LENGTH; otherwise it raises
\* RequestEntityTooLarge (413).
TooLarge(q) == q.content_length > MAX_CONTENT_LENGTH

----------------------------------------------------------------------------
(* Pure functions of main.py *)

\* allowed_file without the .lower() call
allowed_file_case_sensitive(filename) ==
    /\ "." \in Range(filename)
    /\ rsplit_last(filename) \in ALLOWED_EXTENSIONS

\* main.py:29-31
allowed_file(filename) ==
    /\ "." \in Range(filename)
    /\ lower(rsplit_last(filename)) \in ALLOWED_EXTENSIONS

\* werkzeug.utils.secure_filename, called at main.py:115 ------------------

\* filename.replace(os.path.sep, " ")
replace_sep(s) == [i \in DOMAIN s |-> IF s[i] = "/" THEN " " ELSE s[i]]

\* "_".join(s.split())
RECURSIVE join_split(_, _, _)
join_split(s, i, acc) ==
    IF i > Len(s) THEN acc
    ELSE IF s[i] = " " THEN join_split(s, i + 1, acc)
    ELSE IF i > 1 /\ s[i - 1] = " " /\ acc # <<>>
         THEN join_split(s, i + 1, acc \o <<"_", s[i]>>)
         ELSE join_split(s, i + 1, Append(acc, s[i]))

\* complement of _filename_ascii_strip_re = [^A-Za-z0-9_.-]
IsSafeChar(c) ==
    c \in Range(Upper) \cup Range(Lower) \cup Digits \cup {"_", ".", "-"}

\* str.strip("._")
RECURSIVE lstrip(_)
lstrip(s) ==
    IF s # <<>> /\ Head(s) \in {".", "_"} THEN lstrip(Tail(s)) ELSE s

RECURSIVE rstrip(_)
rstrip(s) ==
    IF s # <<>> /\ s[Len(s)] \in {".", "_"}
    THEN rstrip(SubSeq(s, 1, Len(s) - 1)) ELSE s

\* The uploaded names are ASCII, so the NFKD/ASCII step changes nothing;
\* the Windows device-name rule does not apply on the deployment platform.
secure_filename(filename) ==
    rstrip(lstrip(SelectSeq(join_split(replace_sep(filename), 1, <<>>),
                            IsSafeChar)))

\* os.path.splitext(p)[0] (genericpath._splitext): the last '.' splits, unless
\* only dots precede it in the last path component.
splitext_root(p) ==
    LET sepIndex == rfind(p, "/")
        dotIndex == rfind(p, ".")
    IN  IF /\ dotIndex > sepIndex
           /\ \E i \in (sepIndex + 1)..(dotIndex - 1) : p[i] # "."
        THEN SubSeq(p, 1, dotIndex - 1)
        ELSE p

NO_BACKGROUND_PNG ==
    <<"_","n","o","_","b","a","c","k","g","r","o","u","n","d",".","p","n","g">>

\* download_filename without the secure_filename call
download_filename_raw(filename) ==
    splitext_root(filename) \o NO_BACKGROUND_PNG

\* main.py:115-117
download_filename(filename) ==
    splitext_root(secure_filename(filename)) \o NO_BACKGROUND_PNG

----------------------------------------------------------------------------
(* Responses *)

\* A message without interpolated values, and an f-string that joins a set
\* of values into its literal text (the order of a joined set is unspecified).
Text(s) == <<s, {}>>
Format(s, values) == <<s, values>>

\* flask.jsonify(body), status
Json(status, body) ==
    [status |-> status, mimetype |-> "application/json",
     as_attachment |-> FALSE, download_name |-> <<>>, body |-> body]

\* main.py:36-57
home_response ==
    Json(200, [message |-> "Background Removal API", version |-> "1.0.0",
               status |-> "running", platform |-> "Render",
               supported_formats |-> ALLOWED_EXTENSIONS,
               max_file_size |-> "16MB"])

\* Values uuid.uuid4() can return.
UUIDs == {"uuid-1", "uuid-2"}

\* os.sys.version of the running interpreter: fixed for the process.
PythonVersion == "Python 3.x"

\* health_check answering with the status string of home
health_response_running(u) ==
    Json(200, [status |-> "running",
               message |-> "Background Removal API is running on Render",
               timestamp |-> u, python_version |-> PythonVersion])

\* main.py:62-67; u is the value of uuid.uuid4()
health_response(u) ==
    Json(200, [status |-> "healthy",
               message |-> "Background Removal API is running on Render",
               timestamp |-> u, python_version |-> PythonVersion])

\* main.py:80
missing_file_response ==
    Json(400, [error |-> Text("No image file provided"), field |-> "image"])

\* main.py:86
no_file_selected_response ==
    Json(400, [error |-> Text("No image selected")])

\* main.py:90-93
unsupported_type_response(filename) ==
    Json(400, [error |-> Format("File type not allowed. Supported types: ",
                                ALLOWED_EXTENSIONS),
               filename |-> filename])

\* the except clause hiding the exception text
processing_error_response_redacted(filename, e) ==
    Json(500, [error |-> Text("Failed to process image"),
               details |-> "Internal server error",
               filename |-> filename])

\* main.py:129-136; e is str(e) of the exception caught
processing_error_response(filename, e) ==
    Json(500, [error |-> Text("Failed to process image"), details |-> e,
               filename |-> filename])

\* main.py:122-127
send_file_response(filename) ==
    [status |-> 200, mimetype |-> "image/png", as_attachment |-> TRUE,
     download_name |-> download_filename(filename),
     body |-> [png |-> "output_image"]]

\* main.py:138-145
too_large_response ==
    Json(413, [error |-> Text("File too large"), max_size |-> "16MB",
               tip |-> "Please compress your image or use a smaller file"])

\* main.py:147-152
not_found_response ==
    Json(404, [error |-> Text("Endpoint not found"),
               available_endpoints |-> <<"/", "/health", "/remove-background">>])

\* No handler is registered for 405: Flask answers with werkzeug's own
\* MethodNotAllowed page.
method_not_allowed_response ==
    [status |-> 405, mimetype |-> "text/html", as_attachment |-> FALSE,
     download_name |-> <<>>, body |-> [html |-> "405 Method Not Allowed"]]

\* Texts of the exceptions the external libraries raise.
DecodeErrors == {"cannot identify image file"}
EngineErrors == {"inference failed"}
EncodeErrors == {"cannot write mode as PNG"}

----------------------------------------------------------------------------
(* State machine *)

NoRequest == Req("", "", 0, FALSE, <<>>)

Handling == {"Received", "Validated", "Decoded", "Processed", "Encoded"}

InFlight == {i \in Ids : pc[i] \in Handling}

Init ==
    /\ ALLOWED_EXTENSIONS = InitialAllowedExtensions
    /\ MAX_CONTENT_LENGTH = InitialMaxContentLength
    /\ reqs = [i \in Ids |-> NoRequest]
    /\ backlog = <<>>
    /\ pc = [i \in Ids |-> "new"]
    /\ worker = [i \in Ids |-> 0]
    /\ hist = [i \in Ids |-> <<>>]
    /\ verdict = [i \in Ids |-> "none"]
    /\ raised = [i \in Ids |-> ""]
    /\ resp = [i \in Ids |-> <<>>]

\* A client sends request q; the kernel queues the connection.
Arrive(q) ==
    /\ \E i \in Ids : pc[i] = "new"
    /\ LET i == CHOOSE i \in Ids : pc[i] = "new" /\ \A j \in Ids : pc[j] = "new" => i <= j
       IN  /\ reqs' = [reqs EXCEPT ![i] = q]
           /\ backlog' = Append(backlog, i)
           /\ pc' = [pc EXCEPT ![i] = "queued"]
    /\ UNCHANGED <<config, worker, hist, verdict, raised, resp>>

\* Worker w, when it is not busy with a request, accepts the next connection.
Accept(w) ==
    /\ backlog # <<>>
    /\ Cardinality({i \in InFlight : worker[i] = w}) < WorkerCapacity
    /\ pc' = [pc EXCEPT ![Head(backlog)] = "Received"]
    /\ worker' = [worker EXCEPT ![Head(backlog)] = w]
    /\ backlog' = Tail(backlog)
    /\ UNCHANGED <<config, reqs, hist, verdict, raised, resp>>

\* The response r is written to the client and the request is over.
Reply(i, r) ==
    /\ resp' = [resp EXCEPT ![i] = Append(@, r)]
    /\ pc' = [pc EXCEPT ![i] = "Responded"]

\* main.py:147-152: no route matches the path
not_found(i) ==
    /\ pc[i] = "Received"
    /\ reqs[i].path \notin DOMAIN Routes
    /\ Reply(i, not_found_response)
    /\ UNCHANGED <<config, reqs, backlog, worker, hist, verdict, raised>>

\* A route matches the path but not the method.
method_not_allowed(i) ==
    /\ pc[i] = "Received"
    /\ reqs[i].path \in DOMAIN Routes
    /\ reqs[i].method \notin Routes[reqs[i].path]
    /\ Reply(i, method_not_allowed_response)
    /\ UNCHANGED <<config, reqs, backlog, worker, hist, verdict, raised>>

Routed(i, path) ==
    /\ pc[i] = "Received"
    /\ reqs[i].path = path
    /\ reqs[i].method \in Routes[path]

\* home consuming the module-level set while listing it
home_pops(i) ==
    /\ Routed(i, "/")
    /\ Reply(i, home_response)
    /\ ALLOWED_EXTENSIONS' = {}
    /\ UNCHANGED <<MAX_CONTENT_LENGTH, reqs, backlog, worker, hist, verdict,
                   raised>>

\* main.py:33-57
home(i) ==
    /\ Routed(i, "/")
    /\ Reply(i, home_response)
    /\ UNCHANGED <<config, reqs, backlog, worker, hist, verdict, raised>>

\* main.py:59-67
health_check(i) ==
    /\ Routed(i, "/health")
    /\ \E u \in UUIDs : Reply(i, health_response(u))
    /\ UNCHANGED <<config, reqs, backlog, worker, hist, verdict, raised>>

\* the checks of lines 78 and 84 in the opposite order
validation_swapped(q) ==
    IF TooLarge(q) THEN "PayloadTooLarge"
    ELSE IF q.filename = <<>> THEN "NoFileSelected"
    ELSE IF ~q.has_image THEN "MissingFile"
    ELSE IF ~allowed_file(q.filename) THEN "UnsupportedType"
    ELSE "ok"

\* main.py:76-93: the outcome of the checks before the try block.  Reading
\* request.files parses the body, which is where the size limit is enforced.
validation(q) ==
    IF TooLarge(q) THEN "PayloadTooLarge"
    ELSE IF ~q.has_image THEN "MissingFile"
    ELSE IF q.filename = <<>> THEN "NoFileSelected"
    ELSE IF ~allowed_file(q.filename) THEN "UnsupportedType"
    ELSE "ok"

\* main.py:76-93
validate(i) ==
    /\ Routed(i, "/remove-background")
    /\ hist' = [hist EXCEPT ![i] = Append(@, "validate")]
    /\ LET q == reqs[i]
           v == validation(q)
       IN  CASE v = "PayloadTooLarge" ->
                  /\ Reply(i, too_large_response)
                  /\ UNCHANGED verdict
             [] v = "MissingFile" ->
                  /\ Reply(i, missing_file_response)
                  /\ verdict' = [verdict EXCEPT ![i] = v]
             [] v = "NoFileSelected" ->
                  /\ Reply(i, no_file_selected_response)
                  /\ verdict' = [verdict EXCEPT ![i] = v]
             [] v = "UnsupportedType" ->
                  /\ Reply(i, unsupported_type_response(q.filename))
                  /\ verdict' = [verdict EXCEPT ![i] = v]
             [] OTHER ->
                  /\ pc' = [pc EXCEPT ![i] = "Validated"]
                  /\ verdict' = [verdict EXCEPT ![i] = v]
                  /\ UNCHANGED resp
    /\ UNCHANGED <<config, reqs, backlog, worker, raised>>

\* main.py:129-136: the except clause of the try block
Except(i, e) ==
    /\ raised' = [raised EXCEPT ![i] = e]
    /\ Reply(i, processing_error_response(reqs[i].filename, e))

\* A step of the try block: it returns, or it raises one of errors.
Step(i, from, name, to, errors) ==
    /\ pc[i] = from
    /\ hist' = [hist EXCEPT ![i] = Append(@, name)]
    /\ \/ /\ pc' = [pc EXCEPT ![i] = to]
          /\ UNCHANGED <<raised, resp>>
       \/ \E e \in errors : Except(i, e)
    /\ UNCHANGED <<config, reqs, backlog, worker, verdict>>

\* main.py:99: Image.open(file.stream)
decode(i) == Step(i, "Validated", "decode", "Decoded", DecodeErrors)

\* the engine call tried again after it raised
engine_retry(i) ==
    /\ pc[i] = "Decoded"
    /\ hist' = [hist EXCEPT ![i] = Append(@, "engine")]
    /\ \/ pc' = [pc EXCEPT ![i] = "Processed"]
       \/ UNCHANGED pc
    /\ UNCHANGED <<config, reqs, backlog, worker, verdict, raised, resp>>

\* main.py:106: remove(input_image)
engine(i) == Step(i, "Decoded", "engine", "Processed", EngineErrors)

\* main.py:110-112: output_image.save(img_io, 'PNG')
encode(i) == Step(i, "Processed", "encode", "Encoded", EncodeErrors)

\* main.py:115-127
send(i) ==
    /\ pc[i] = "Encoded"
    /\ hist' = [hist EXCEPT ![i] = Append(@, "send")]
    /\ Reply(i, send_file_response(reqs[i].filename))
    /\ UNCHANGED <<config, reqs, backlog, worker, verdict, raised>>

Next ==
    \/ \E q \in Requests : Arrive(q)
    \/ \E w \in Workers : Accept(w)
    \/ \E i \in Ids :
          \/ not_found(i)
          \/ method_not_allowed(i)
          \/ home(i)
          \/ health_check(i)
          \/ validate(i)
          \/ decode(i)
          \/ engine(i)
          \/ encode(i)
          \/ send(i)

Spec == Init /\ [][Next]_vars

----------------------------------------------------------------------------
(* Properties *)

Responded(i) == pc[i] = "Responded"

\* Request i was sent and is a POST to /remove-background.
IsUpload(i) ==
    /\ pc[i] # "new"
    /\ reqs[i].method = "POST"
    /\ reqs[i].path = "/remove-background"

WithinLimit(i) == reqs[i].content_length <= 16 * 1024 * 1024

Executed(i, step) == step \in Range(hist[i])

\* The steps of remove_background, in the order of the source.
StepOrder == <<"validate", "decode", "engine", "encode", "send">>

IsPrefix(s, t) == Len(s) <= Len(t) /\ s = SubSeq(t, 1, Len(s))

IsJsonError(r) ==
    /\ r.status >= 400
    /\ r.mimetype = "application/json"
    /\ "error" \in DOMAIN r.body

IsImage(r) ==
    /\ r.status = 200
    /\ r.mimetype = "image/png"
    /\ "png" \in DOMAIN r.body

\* C1: a POST /remove-background within the size limit whose body has no
\* image field never reaches decode or the engine, and is answered 400 with
\* the JSON error "No image file provided".
C1_MissingImage ==
    \A i \in Ids :
        (IsUpload(i) /\ WithinLimit(i) /\ ~reqs[i].has_image) =>
            /\ ~Executed(i, "decode")
            /\ ~Executed(i, "engine")
            /\ pc[i] \in {"queued", "Received", "Responded"}
            /\ Responded(i) =>
                  /\ Len(resp[i]) = 1
                  /\ resp[i][1].status = 400
                  /\ IsJsonError(resp[i][1])
                  /\ resp[i][1].body.error = Text("No image file provided")

C1_Witness ==
    \E i \in Ids :
        IsUpload(i) /\ WithinLimit(i) /\ ~reqs[i].has_image /\ Responded(i)

\* The two characters are the same letter in either case.
SameLetter(a, b) ==
    \/ a = b
    \/ \E n \in DOMAIN Upper : {a, b} = {Upper[n], Lower[n]}

EqualIgnoringCase(s, t) ==
    /\ Len(s) = Len(t)
    /\ \A k \in DOMAIN s : SameLetter(s[k], t[k])

\* The substring after the last '.' of f is png, jpg, jpeg or webp, whatever
\* its case.
ExtensionAccepted(f) ==
    \E k \in DOMAIN f :
        /\ f[k] = "."
        /\ \A j \in (k + 1)..Len(f) : f[j] # "."
        /\ \E e \in {PNG, JPG, JPEG, WEBP} :
              EqualIgnoringCase(SubSeq(f, k + 1, Len(f)), e)

HasNamedImage(i) ==
    /\ IsUpload(i)
    /\ WithinLimit(i)
    /\ reqs[i].has_image
    /\ reqs[i].filename # <<>>

\* C2: an upload with a non-empty filename passes validation exactly when
\* the substring after the last '.', compared case-insensitively, is png,
\* jpg, jpeg or webp; every other one is answered 400 with an error that
\* lists the allowed set, and neither decode nor the engine runs for it.
C2_ExtensionValidation ==
    \A i \in Ids :
        (HasNamedImage(i) /\ Executed(i, "validate")) =>
            /\ verdict[i] = "ok" <=> ExtensionAccepted(reqs[i].filename)
            /\ verdict[i] = "ok" <=> (pc[i] = "Validated" \/ Executed(i, "decode"))
            /\ ~ExtensionAccepted(reqs[i].filename) =>
                  /\ hist[i] = <<"validate">>
                  /\ Len(resp[i]) = 1
                  /\ resp[i][1].status = 400
                  /\ IsJsonError(resp[i][1])
                  /\ resp[i][1].body.error[2] = {PNG, JPG, JPEG, WEBP}

C2_Witness ==
    \E i, j \in Ids :
        /\ HasNamedImage(i) /\ verdict[i] = "ok"
        /\ reqs[i].filename # lower(reqs[i].filename)
        /\ HasNamedImage(j) /\ verdict[j] = "UnsupportedType"
        /\ "." \notin Range(reqs[j].filename)

\* Every step of remove_background ran and none raised.
Succeeded(i) == IsUpload(i) /\ hist[i] = StepOrder

\* f with its extension, the last '.' and what follows it, removed.
WithoutExtension(f) ==
    LET I == {k \in DOMAIN f : f[k] = "."}
    IN  IF I = {} THEN f
        ELSE SubSeq(f, 1, (CHOOSE k \in I : \A j \in I : j <= k) - 1)

\* C3 as stated: the download filename of a successful request is the
\* uploaded filename without its extension, followed by _no_background.png.
C3_OriginalBaseName ==
    \A i \in Ids :
        Succeeded(i) =>
            /\ Len(resp[i]) = 1
            /\ IsImage(resp[i][1])
            /\ resp[i][1].as_attachment
            /\ resp[i][1].download_name =
                  WithoutExtension(reqs[i].filename) \o NO_BACKGROUND_PNG

\* C3 amended: the download filename of a successful request is the
\* sanitised filename (secure_filename of the uploaded one) without its
\* extension, followed by _no_background.png; the response is 200,
\* image/png, an attachment.
C3_SanitizedBaseName ==
    \A i \in Ids :
        Succeeded(i) =>
            /\ Len(resp[i]) = 1
            /\ IsImage(resp[i][1])
            /\ resp[i][1].as_attachment
            /\ resp[i][1].download_name =
                  WithoutExtension(secure_filename(reqs[i].filename))
                      \o NO_BACKGROUND_PNG

C3_Witness ==
    \E i \in Ids :
        /\ Succeeded(i)
        /\ secure_filename(reqs[i].filename) # reqs[i].filename

\* C4: when decode or the engine call raises, the request is answered 500
\* with error "Failed to process image" and details equal to the text of the
\* exception; no image is returned and the step is not run again.
C4_ProcessingError ==
    \A i \in Ids :
        (raised[i] # "" /\ hist[i][Len(hist[i])] \in {"decode", "engine"}) =>
            /\ Responded(i)
            /\ IsPrefix(hist[i], StepOrder)
            /\ Len(resp[i]) = 1
            /\ resp[i][1].status = 500
            /\ IsJsonError(resp[i][1])
            /\ resp[i][1].body.error = Text("Failed to process image")
            /\ resp[i][1].body.details = raised[i]

C4_Witness ==
    \E i, j \in Ids :
        /\ raised[i] \in DecodeErrors /\ hist[i] = <<"validate", "decode">>
        /\ raised[j] \in EngineErrors
        /\ hist[j] = <<"validate", "decode", "engine">>

\* C5 as stated: every request whose body exceeds 16 MiB is answered 413
\* before any handler is reached.
C5_RejectedBeforeHandler ==
    \A i \in Ids :
        (pc[i] # "new" /\ ~WithinLimit(i)) =>
            /\ hist[i] = <<>>
            /\ Responded(i) => resp[i][1].status = 413

\* C5 amended: every POST /remove-background whose body exceeds 16 MiB is
\* answered 413 with a JSON error when the handler first reads the uploaded
\* files: it gets no validation verdict, and decode, the engine and encode
\* are not executed for it.
C5_OversizedUpload ==
    \A i \in Ids :
        (IsUpload(i) /\ ~WithinLimit(i)) =>
            /\ verdict[i] = "none"
            /\ IsPrefix(hist[i], <<"validate">>)
            /\ pc[i] \in {"queued", "Received", "Responded"}
            /\ Responded(i) =>
                  /\ Len(resp[i]) = 1
                  /\ resp[i][1].status = 413
                  /\ IsJsonError(resp[i][1])

C5_Witness ==
    \E i \in Ids :
        /\ IsUpload(i) /\ ~WithinLimit(i) /\ Responded(i)
        /\ reqs[i].has_image /\ ExtensionAccepted(reqs[i].filename)

\* C6: every response with a status of 400 or more, whatever the method and
\* path of its request, is a JSON object with an error field.
C6_FailuresAreJson ==
    \A i \in Ids :
        \A k \in DOMAIN resp[i] :
            resp[i][k].status >= 400 => IsJsonError(resp[i][k])

\* C7: the steps of a POST /remove-background run in the order validate,
\* decode, engine, encode, send, each at most once; the engine runs only
\* after validation and decode succeeded; a step that fails ends the request
\* with one error response and no later step; a finished request has exactly
\* one response, an image when every step succeeded and a JSON error
\* otherwise.
C7_LinearStateMachine ==
    \A i \in Ids :
        IsUpload(i) =>
            /\ IsPrefix(hist[i], StepOrder)
            /\ Executed(i, "engine") => verdict[i] = "ok"
            /\ Len(resp[i]) = IF Responded(i) THEN 1 ELSE 0
            /\ pc[i] = "Validated" => hist[i] = SubSeq(StepOrder, 1, 1)
            /\ pc[i] = "Decoded" => hist[i] = SubSeq(StepOrder, 1, 2)
            /\ pc[i] = "Processed" => hist[i] = SubSeq(StepOrder, 1, 3)
            /\ pc[i] = "Encoded" => hist[i] = SubSeq(StepOrder, 1, 4)
            /\ raised[i] # "" => Responded(i)
            /\ Responded(i) =>
                  /\ hist[i] # <<>>
                  /\ IF hist[i] = StepOrder
                     THEN IsImage(resp[i][1]) /\ raised[i] = ""
                     ELSE IsJsonError(resp[i][1]) /\ ~IsImage(resp[i][1])

C7_Witness ==
    \E i, j \in Ids :
        /\ Succeeded(i) /\ Responded(i)
        /\ IsUpload(j) /\ Responded(j) /\ raised[j] \in EngineErrors

C9_NoSharedStateMutation ==
    /\ ALLOWED_EXTENSIONS = {PNG, JPG, JPEG, WEBP}
    /\ MAX_CONTENT_LENGTH = 16 * 1024 * 1024
    /\ \A i, j \in Ids :
          (/\ IsUpload(i) /\ Executed(i, "validate")
           /\ IsUpload(j) /\ Executed(j, "validate")
           /\ reqs[i] = reqs[j]) =>
              /\ verdict[i] = verdict[j]
              /\ (verdict[i] # "ok" /\ Responded(i) /\ Responded(j))
                    => resp[i] = resp[j]

C9_Witness ==
    \E i, j \in Ids :
        /\ i < j
        /\ reqs[i] = reqs[j]
        /\ IsUpload(i) /\ Responded(i) /\ verdict[i] = "UnsupportedType"
        /\ IsUpload(j) /\ Responded(j)

IsHealth(i) ==
    /\ Responded(i)
    /\ reqs[i].method = "GET"
    /\ reqs[i].path = "/health"

\* C10 as stated: any two GET /health requests get status 200 and identical
\* bodies containing status "healthy".
C10_IdenticalBodies ==
    \A i, j \in Ids :
        (IsHealth(i) /\ IsHealth(j)) =>
            /\ resp[i][1].status = 200
            /\ resp[i][1].body.status = "healthy"
            /\ resp[i][1].body = resp[j][1].body

\* C10 amended: any two GET /health requests get status 200 and bodies
\* containing status "healthy" that are identical in every field except
\* timestamp, which holds a value generated for each request.
C10_IdenticalExceptTimestamp ==
    \A i, j \in Ids :
        (IsHealth(i) /\ IsHealth(j)) =>
            /\ Len(resp[i]) = 1
            /\ resp[i][1].status = 200
            /\ resp[i][1].mimetype = "application/json"
            /\ resp[i][1].body.status = "healthy"
            /\ DOMAIN resp[i][1].body = DOMAIN resp[j][1].body
            /\ \A f \in DOMAIN resp[i][1].body \ {"timestamp"} :
                  resp[i][1].body[f] = resp[j][1].body[f]

C10_Witness ==
    \E i, j \in Ids :
        /\ i # j /\ IsHealth(i) /\ IsHealth(j)
        /\ resp[i][1].body.timestamp # resp[j][1].body.timestamp

=============================================================================
